---- MODULE Spec2Model ----
(***************************************************************************)
(* Verification model of the healthcare client:                            *)
(*   - the authenticated request client (apiClient: axios instance with a  *)
(*     request interceptor attaching the stored access token and a         *)
(*     response interceptor refreshing the tokens on a 401), together with *)
(*     the sign-out handler that shares the SecureStore with it;           *)
(*   - the hospital recommendation scorer (calculateDistance,              *)
(*     calculateTravelTime, findRecommendedHospital).                      *)
(***************************************************************************)
EXTENDS Integers, Sequences, FiniteSets, TLC

(***************************************************************************)
(* Bounds of the model.                                                    *)
(***************************************************************************)
\* number of apiClient requests that may be in flight concurrently
MaxRequests == 2
\* cap on the HTTP calls one request may make to its endpoint (the code
\* itself never makes more than two; the cap keeps variants finite)
MaxSends == 3
\* cap on the refresh calls one request may make (the code makes at most one)
MaxRefreshCalls == 2
\* longest hospital list given to findRecommendedHospital
MaxHospitals == 3
MaxDistance == 1500
MaxRetries == 2
MaxRecordings == 2
MaxRequestIds == 3
MaxAttempts == 2

Requests == 1..MaxRequests

(***************************************************************************)
(* Tokens.  A token is <<kind, issue>>: issue 0 is the pair obtained at    *)
(* login, issue r the pair returned by the refresh response of request r.  *)
(* null is the value of an absent SecureStore key.                         *)
(***************************************************************************)
null == <<>>
AccessToken(i) == <<"access", i>>
RefreshToken(i) == <<"refresh", i>>
Issues == 0..MaxRequests
Tokens == {AccessToken(i) : i \in Issues} \cup {RefreshToken(i) : i \in Issues}

\* statuses the remote service may answer with
Statuses == {200, 401, 500}
\* the outcomes of one HTTP call: a response with a status, or no response
\* (timeout / network error: the axios error has no response)
NoResponse == [answered |-> FALSE, status |-> 0]
Outcomes == {[answered |-> TRUE, status |-> s] : s \in Statuses} \cup {NoResponse}

\* axios validateStatus default: 2xx resolves, everything else rejects
validateStatus(status) == status >= 200 /\ status < 300

VARIABLES
    SecureStore,    \* [accessToken, refreshToken]: the two SecureStore keys
    pc,             \* pc[r]: position of request r in the interceptor chain
    retry,          \* retry[r]: originalRequest._retry
    Authorization,  \* Authorization[r]: config.headers.Authorization (token or null)
    accessToken,    \* accessToken[r]: what the request interceptor read from the
                    \* store under "accessToken", once per pass, in order
    refreshToken,   \* refreshToken[r]: the handler's local: <<>> before the read,
                    \* then <<what SecureStore held under "refreshToken">>
    newTokens,      \* newTokens[r]: <<issue of the pair in r's refresh response>>
    result,         \* result[r]: what the promise returned to the caller settled with
    sends,          \* sends[r]: HTTP calls made to r's endpoint
    sentAuth,       \* sentAuth[r]: the Authorization header of each such call
    responses,      \* responses[r]: outcome of each such call, in order
    refreshCalls,   \* refreshCalls[r]: calls made to token/refresh/ on behalf of r
    refreshOutcomes,\* refreshOutcomes[r]: outcome of each refresh call, in order
    writes,         \* writes[r]: SecureStore writes completed by r's interceptor
    logoutPc        \* position of handleLogout's onPress handler

clientVars == <<SecureStore, pc, retry, Authorization, accessToken, refreshToken, newTokens, result, sends,
                sentAuth, responses, refreshCalls, refreshOutcomes, writes, logoutPc>>

VARIABLES
    hospitalList,        \* argument of findRecommendedHospital
    userLoc,             \* argument of findRecommendedHospital
    hospitalsWithScores, \* its local array
    scorerPc,            \* its position
    recommended          \* its return value

scorerVars == <<hospitalList, userLoc, hospitalsWithScores, scorerPc, recommended>>

VARIABLES
    distanceKm,          \* argument of calculateTravelTime, held in metres
    travelTime           \* its return value, in minutes (<<>> before the call)

travelVars == <<distanceKm, travelTime>>

VARIABLES
    hospitals,           \* useState<Hospital[]>([])
    userLocation,        \* useState<UserLocation | null>(null)
    recommendedHospital, \* useState<HospitalWithScore | null>(null)
    loading,             \* useState(true)
    error,               \* useState<string | null>(null)
    locationPermission,  \* useState(false)
    initPc,              \* position of initializeData
    initUserLoc,         \* what initializeData's getUserLocation() returned
    initHospitalData,    \* what initializeData's fetchHospitals() returned
    locationPc,          \* locationPc[c]: position of caller c's getUserLocation()
    fetchPc,             \* fetchPc[c]: position of caller c's fetchHospitals()
    retries              \* presses of "Try Again" so far

screenVars == <<hospitals, userLocation, recommendedHospital, loading, error,
                locationPermission, initPc, initUserLoc, initHospitalData,
                locationPc, fetchPc, retries>>

VARIABLES
    coordA,              \* (lat1, lon1) of a call of calculateDistance
    coordB,              \* (lat2, lon2) of that call
    distanceResult       \* its return value, in metres (<<>> before the call)

distanceVars == <<coordA, coordB, distanceResult>>

VARIABLES
    isListening,         \* useState(false)
    isProcessing,        \* useState(false)
    recording,           \* useState<Audio.Recording | null>(null): <<k>> is the
                         \* recording made by the k-th call of startRecording
    recordings,          \* calls of startRecording so far
    startPc,             \* startPc[k]: position of the k-th call of startRecording
    closureIsListening,  \* closureIsListening[k]: isListening as that call's
                         \* closure holds it (the render the handler came from)
    closureRecording,    \* closureRecording[k]: recording as the stopRecording
                         \* of that same render holds it
    timer,               \* timer[k]: the 10-second timer set by that call
    stopPc               \* position of the running stopRecording chain

voiceVars == <<isListening, isProcessing, recording, recordings, startPc,
               closureIsListening, closureRecording, timer, stopPc>>

VARIABLES
    processingRequests,  \* useState<Set<number>>(new Set())
    dialog,              \* the confirmation alert on screen: <<>> or
                         \* <<[id, action]>>
    callPc,              \* callPc[id]: position of the confirmed call for id
    callAction,          \* callAction[id]: "accept" or "reject", the call made
    completed            \* ids whose confirmed call has completed at least once

hospitalVars == <<processingRequests, dialog, callPc, callAction, completed>>

VARIABLES
    loginPc,             \* position of the login screen's handleLogin
    isLoading,           \* useState(false)
    userData,            \* profileResponse.data: <<>> or <<[user_type, is_verified]>>
    cleanup,             \* which block is deleting the tokens: "unverified"
                         \* (the is_verified branch) or "catch" (profileError)
    route,               \* <<>> or <<the route given to router.replace>>
    alert,               \* title of the last Alert.alert ("" when none)
    attempts             \* presses of the login button so far

loginVars == <<loginPc, isLoading, userData, cleanup, route, alert, attempts>>

\* the request client's variables but the store
requestVars == <<pc, retry, Authorization, accessToken, refreshToken, newTokens, result,
                 sends, sentAuth, responses, refreshCalls, refreshOutcomes, writes, logoutPc>>

restVars == <<distanceVars, voiceVars, hospitalVars, loginVars>>

vars == <<clientVars, scorerVars, travelVars, screenVars, restVars>>

Pending == [kind |-> "pending"]
\* the promise resolves with the response of call n to the endpoint
Resolved(n, status) == [kind |-> "resolved", from |-> "request", call |-> n, status |-> status]
\* the promise rejects with the axios error of call n to the endpoint
RejectedError(n, o) ==
    [kind |-> "rejected", from |-> "request", call |-> n,
     answered |-> o.answered, status |-> o.status]
\* the promise rejects with refreshError: the error of the refresh call ...
RejectedRefreshError(o) ==
    [kind |-> "rejected", from |-> "refresh", call |-> 0,
     answered |-> o.answered, status |-> o.status]
\* ... or the exception of a SecureStore call inside the try block
RejectedStoreError ==
    [kind |-> "rejected", from |-> "store", call |-> 0, answered |-> FALSE, status |-> 0]

ClientInit ==
    /\ SecureStore \in {[accessToken |-> AccessToken(0), refreshToken |-> RefreshToken(0)],
                        [accessToken |-> null, refreshToken |-> null]}
    /\ pc = [r \in Requests |-> "idle"]
    /\ retry = [r \in Requests |-> FALSE]
    /\ Authorization = [r \in Requests |-> null]
    /\ accessToken = [r \in Requests |-> <<>>]
    /\ refreshToken = [r \in Requests |-> <<>>]
    /\ newTokens = [r \in Requests |-> <<>>]
    /\ result = [r \in Requests |-> Pending]
    /\ sends = [r \in Requests |-> 0]
    /\ sentAuth = [r \in Requests |-> <<>>]
    /\ responses = [r \in Requests |-> <<>>]
    /\ refreshCalls = [r \in Requests |-> 0]
    /\ refreshOutcomes = [r \in Requests |-> <<>>]
    /\ writes = [r \in Requests |-> 0]
    /\ logoutPc = "idle"


(***************************************************************************)
(* The request client.                                                     *)
(***************************************************************************)
\* a promise settles once: a later settlement of a settled promise is ignored
Settle(current, outcome) == IF current.kind = "pending" THEN outcome ELSE current

\* the condition under which the response interceptor starts a refresh:
\* error.response?.status === 401 && !originalRequest._retry
ShouldRefresh_IgnoresRetryFlag(o, retried) == o.answered /\ o.status = 401
ShouldRefresh_IgnoresStatus(o, retried) == ~retried
ShouldRefresh_OnUnanswered(o, retried) == ~retried /\ (~o.answered \/ o.status = 401)
ShouldRefresh(o, retried) == o.answered /\ o.status = 401 /\ ~retried

\* if (!refreshToken) return Promise.reject(error)
HasRefreshToken_NoCheck(token) == TRUE
HasRefreshToken(token) == token # null

\* axios.post(refreshUrl, ...) resolves on a 2xx answer and throws otherwise
RefreshSucceeded_AnyAnswer(o) == o.answered
RefreshSucceeded(o) == o.answered /\ validateStatus(o.status)

\* What the error handler leaves in the caller's promise once the tokens are
\* saved: it returns apiClient(originalRequest), so the promise stays pending
\* and settles with the retried call.
ReturnRetry_FallsThrough(firstCall, firstOutcome) == RejectedError(firstCall, firstOutcome)
ReturnRetry(firstCall, firstOutcome) == Pending

\* if (accessToken) config.headers.Authorization = `Bearer ${accessToken}`
attachToken_KeepsHeader(header, token) == IF header # null THEN header ELSE token
attachToken(header, token) == IF token # null THEN token ELSE header

\* apiClient(config): the caller issues request r
Call(r) ==
    /\ pc[r] = "idle"
    /\ UNCHANGED accessToken
    /\ pc' = [pc EXCEPT ![r] = "requestInterceptor"]
    /\ UNCHANGED <<SecureStore, retry, Authorization, refreshToken, newTokens, result, sends, sentAuth,
                   responses, refreshCalls, refreshOutcomes, writes, logoutPc, scorerVars, travelVars, screenVars, restVars>>

\* request interceptor: read the access token, attach it when present
requestInterceptor(r) ==
    /\ pc[r] = "requestInterceptor"
    /\ accessToken' = [accessToken EXCEPT ![r] = Append(@, SecureStore.accessToken)]
    /\ Authorization' = [Authorization EXCEPT
                            ![r] = attachToken(@, SecureStore.accessToken)]
    /\ pc' = [pc EXCEPT ![r] = "dispatchRequest"]
    /\ UNCHANGED <<SecureStore, retry, refreshToken, newTokens, result, sends, sentAuth,
                   responses, refreshCalls, refreshOutcomes, writes, logoutPc, scorerVars, travelVars, screenVars, restVars>>

\* the HTTP call to the request's endpoint leaves the client
dispatchRequest(r) ==
    /\ pc[r] = "dispatchRequest"
    /\ UNCHANGED accessToken
    /\ sends[r] < MaxSends
    /\ sends' = [sends EXCEPT ![r] = @ + 1]
    /\ sentAuth' = [sentAuth EXCEPT ![r] = Append(@, Authorization[r])]
    /\ pc' = [pc EXCEPT ![r] = "awaitResponse"]
    /\ UNCHANGED <<SecureStore, retry, Authorization, refreshToken, newTokens, result,
                   responses, refreshCalls, refreshOutcomes, writes, logoutPc, scorerVars, travelVars, screenVars, restVars>>

\* response interceptor, on the outcome o of the HTTP call: a 2xx response is
\* passed through; a 401 of a request not yet retried marks it retried and
\* starts the refresh; any other error is rejected as it is
responseInterceptor(r, o) ==
    /\ pc[r] = "awaitResponse"
    /\ UNCHANGED accessToken
    /\ responses' = [responses EXCEPT ![r] = Append(@, o)]
    /\ IF o.answered /\ validateStatus(o.status)
       THEN /\ result' = [result EXCEPT ![r] = Settle(@, Resolved(sends[r], o.status))]
            /\ pc' = [pc EXCEPT ![r] = "done"]
            /\ UNCHANGED retry
       ELSE IF ShouldRefresh(o, retry[r])
       THEN /\ retry' = [retry EXCEPT ![r] = TRUE]
            /\ pc' = [pc EXCEPT ![r] = "getRefreshToken"]
            /\ UNCHANGED result
       ELSE /\ result' = [result EXCEPT ![r] = Settle(@, RejectedError(sends[r], o))]
            /\ pc' = [pc EXCEPT ![r] = "done"]
            /\ UNCHANGED retry
    /\ UNCHANGED <<SecureStore, Authorization, refreshToken, newTokens, sends, sentAuth,
                   refreshCalls, refreshOutcomes, writes, logoutPc, scorerVars, travelVars, screenVars, restVars>>

\* read the refresh token; without one reject with the 401 error, otherwise
\* post it to token/refresh/ with the global axios
getRefreshToken(r) ==
    /\ pc[r] = "getRefreshToken"
    /\ UNCHANGED accessToken
    /\ refreshToken' = [refreshToken EXCEPT ![r] = <<SecureStore.refreshToken>>]
    /\ IF HasRefreshToken(SecureStore.refreshToken)
       THEN /\ refreshCalls[r] < MaxRefreshCalls
            /\ refreshCalls' = [refreshCalls EXCEPT ![r] = @ + 1]
            /\ pc' = [pc EXCEPT ![r] = "awaitRefresh"]
            /\ UNCHANGED result
       ELSE /\ result' = [result EXCEPT
                             ![r] = Settle(@, RejectedError(sends[r], responses[r][Len(responses[r])]))]
            /\ pc' = [pc EXCEPT ![r] = "done"]
            /\ UNCHANGED refreshCalls
    /\ UNCHANGED <<SecureStore, retry, Authorization, newTokens, sends, sentAuth,
                   responses, refreshOutcomes, writes, logoutPc, scorerVars, travelVars, screenVars, restVars>>

\* outcome o of the refresh call: on success keep the new pair, otherwise the
\* catch block rejects with refreshError
refreshResponse(r, o) ==
    /\ pc[r] = "awaitRefresh"
    /\ UNCHANGED accessToken
    /\ refreshOutcomes' = [refreshOutcomes EXCEPT ![r] = Append(@, o)]
    /\ IF RefreshSucceeded(o)
       THEN /\ newTokens' = [newTokens EXCEPT ![r] = <<r>>]
            /\ pc' = [pc EXCEPT ![r] = "setAccessToken"]
            /\ UNCHANGED result
       ELSE /\ result' = [result EXCEPT ![r] = Settle(@, RejectedRefreshError(o))]
            /\ pc' = [pc EXCEPT ![r] = "done"]
            /\ UNCHANGED newTokens
    /\ UNCHANGED <<SecureStore, retry, Authorization, refreshToken, sends, sentAuth,
                   responses, refreshCalls, writes, logoutPc, scorerVars, travelVars, screenVars, restVars>>

\* what follows the awaited write of the access token: the awaited write of
\* the refresh token (and only then the resend)
afterAccessTokenSaved_Resend == "requestInterceptor"
afterAccessTokenSaved == "setRefreshToken"

\* await SecureStore.setItemAsync("accessToken", newAccessToken): the write
\* completes (ok) or throws into the catch block
setAccessToken(r, ok) ==
    /\ pc[r] = "setAccessToken"
    /\ UNCHANGED accessToken
    /\ IF ok
       THEN /\ SecureStore' = [SecureStore EXCEPT !.accessToken = AccessToken(newTokens[r][1])]
            /\ writes' = [writes EXCEPT ![r] = @ + 1]
            /\ pc' = [pc EXCEPT ![r] = afterAccessTokenSaved]
            /\ UNCHANGED result
       ELSE /\ result' = [result EXCEPT ![r] = Settle(@, RejectedStoreError)]
            /\ pc' = [pc EXCEPT ![r] = "done"]
            /\ UNCHANGED <<SecureStore, writes>>
    /\ UNCHANGED <<retry, Authorization, refreshToken, newTokens, sends, sentAuth,
                   responses, refreshCalls, refreshOutcomes, logoutPc, scorerVars, travelVars, screenVars, restVars>>

\* await SecureStore.setItemAsync("refreshToken", newRefreshToken), then set
\* the header to the new access token and return apiClient(originalRequest)
setRefreshToken(r, ok) ==
    /\ pc[r] = "setRefreshToken"
    /\ UNCHANGED accessToken
    /\ IF ok
       THEN /\ SecureStore' = [SecureStore EXCEPT !.refreshToken = RefreshToken(newTokens[r][1])]
            /\ writes' = [writes EXCEPT ![r] = @ + 1]
            /\ Authorization' = [Authorization EXCEPT ![r] = AccessToken(newTokens[r][1])]
            /\ result' = [result EXCEPT ![r] = Settle(@, ReturnRetry(1, responses[r][1]))]
            /\ pc' = [pc EXCEPT ![r] = "requestInterceptor"]
       ELSE /\ result' = [result EXCEPT ![r] = Settle(@, RejectedStoreError)]
            /\ pc' = [pc EXCEPT ![r] = "done"]
            /\ UNCHANGED <<SecureStore, writes, Authorization>>
    /\ UNCHANGED <<retry, refreshToken, newTokens, sends, sentAuth,
                   responses, refreshCalls, refreshOutcomes, logoutPc, scorerVars, travelVars, screenVars, restVars>>

(***************************************************************************)
(* Sign-out (handleLogout's onPress): delete the access token, then the    *)
(* refresh token.                                                          *)
(***************************************************************************)
deleteAccessToken ==
    /\ logoutPc = "idle"
    /\ UNCHANGED accessToken
    /\ SecureStore' = [SecureStore EXCEPT !.accessToken = null]
    /\ logoutPc' = "deleteRefreshToken"
    /\ UNCHANGED <<pc, retry, Authorization, refreshToken, newTokens, result, sends, sentAuth,
                   responses, refreshCalls, refreshOutcomes, writes, scorerVars, travelVars, screenVars, restVars>>

deleteRefreshToken ==
    /\ logoutPc = "deleteRefreshToken"
    /\ UNCHANGED accessToken
    /\ SecureStore' = [SecureStore EXCEPT !.refreshToken = null]
    /\ logoutPc' = "done"
    /\ UNCHANGED <<pc, retry, Authorization, refreshToken, newTokens, result, sends, sentAuth,
                   responses, refreshCalls, refreshOutcomes, writes, scorerVars, travelVars, screenVars, restVars>>

(***************************************************************************)
(* The hospital recommendation scorer.  Coordinates are whole hundredths   *)
(* of a degree and distances whole metres; the floating-point formulas of  *)
(* the source are evaluated in fixed point (angles in micro-radians, sines *)
(* scaled by 10^6, cosines by 10^4), valid for points at most 3 degrees    *)
(* apart at latitudes up to 60 degrees.                                    *)
(***************************************************************************)
\* Earth's radius in kilometres
R == 6371
averageSpeedKmh == 40

Abs(x) == IF x < 0 THEN -x ELSE x

\* integer square root: the largest k in lo..hi with k * k <= n
RECURSIVE SqrtBetween(_, _, _)
SqrtBetween(n, lo, hi) ==
    IF lo >= hi THEN lo
    ELSE LET mid == (lo + hi + 1) \div 2 IN
         IF mid * mid <= n THEN SqrtBetween(n, mid, hi) ELSE SqrtBetween(n, lo, mid - 1)
Sqrt(n) == SqrtBetween(n, 0, 46340)

\* (centiDeg * Math.PI / 180) / 2 in micro-radians (pi/180 = 0.0174533)
HalfAngle(centiDeg) == (Abs(centiDeg) * 174533) \div 2000
\* Math.sin(x), x in micro-radians and small, scaled by 10^6: x - x^3/6
SinSmall(x) == x - (((x * x) \div 1000000) * x) \div 6000000
\* Math.cos(centiDeg * Math.PI / 180), scaled by 10^4: 1 - x^2/2 + x^4/24 - x^6/720
Cos(centiDeg) ==
    LET x  == (Abs(centiDeg) * 174533) \div 100000
        x2 == (x * x) \div 10000
        x4 == (x2 * x2) \div 10000
        x6 == (x4 * x2) \div 10000
    IN 10000 - (x2 \div 2) + (x4 \div 24) - (x6 \div 720)
\* atan2(sqrt(a), sqrt(1 - a)) = asin(sqrt(a)); s = sqrt(a) scaled by 10^6 and
\* small: s + s^3/6, in micro-radians
AtanSqrt(s) == s + (((s * s) \div 1000000) * s) \div 6000000

\* haversine distance, in metres
calculateDistance_FirstLatitudeTwice(lat1, lon1, lat2, lon2) ==
    LET sinLat == SinSmall(HalfAngle(lat2 - lat1))
        sinLon == SinSmall(HalfAngle(lon2 - lon1))
        a == sinLat * sinLat
             + ((sinLon * Cos(lat1)) \div 10000) * ((sinLon * Cos(lat1)) \div 10000)
        c == 2 * AtanSqrt(Sqrt(a))
    IN (R * c) \div 1000
calculateDistance(lat1, lon1, lat2, lon2) ==
    LET sinLat == SinSmall(HalfAngle(lat2 - lat1))
        sinLon == SinSmall(HalfAngle(lon2 - lon1))
        a == sinLat * sinLat
             + ((sinLon * Cos(lat1)) \div 10000) * ((sinLon * Cos(lat2)) \div 10000)
        c == 2 * AtanSqrt(Sqrt(a))
    IN (R * c) \div 1000

\* Math.round((distanceKm / averageSpeedKmh) * 60), for a distance in metres;
\* Math.round rounds halves up
calculateTravelTime_Truncates(distanceM) ==
    (distanceM * 60) \div (averageSpeedKmh * 1000)
calculateTravelTime(distanceM) ==
    (2 * distanceM * 60 + averageSpeedKmh * 1000) \div (2 * averageSpeedKmh * 1000)

\* score = travel_time + hospital.current_wait_time
score_TravelOnly(travel_time, current_wait_time) == travel_time
score_Weighted(travel_time, current_wait_time) == 2 * travel_time + current_wait_time
score(travel_time, current_wait_time) == travel_time + current_wait_time

\* the callback of hospitalList.map: the hospital with its score and travel time
withScore(hospital, loc) ==
    LET distance == calculateDistance(loc.latitude, loc.longitude,
                                      hospital.latitude, hospital.longitude)
        travel_time == calculateTravelTime(distance)
    IN [id |-> hospital.id, latitude |-> hospital.latitude,
        longitude |-> hospital.longitude,
        current_wait_time |-> hospital.current_wait_time,
        score |-> score(travel_time, hospital.current_wait_time),
        travel_time |-> travel_time]

\* { ...hospital, score, travel_time } builds a new object: the element of
\* the input list is left as it was
afterSpread_InPlace(hospital, scored) == scored
afterSpread(hospital, scored) == hospital

\* the comparator of the sort: (a, b) => a.score - b.score
compare_Descending(a, b) == b.score - a.score
compare(a, b) == a.score - b.score

\* Array.prototype.sort (stable): each element is inserted behind the elements
\* before it that the comparator does not order after it
RECURSIVE insert_BeforeEqual(_, _)
insert_BeforeEqual(sorted, x) ==
    IF sorted = <<>> THEN <<x>>
    ELSE LET last == sorted[Len(sorted)] IN
         IF compare(last, x) < 0 THEN Append(sorted, x)
         ELSE Append(insert_BeforeEqual(SubSeq(sorted, 1, Len(sorted) - 1), x), last)
RECURSIVE insert(_, _)
insert(sorted, x) ==
    IF sorted = <<>> THEN <<x>>
    ELSE LET last == sorted[Len(sorted)] IN
         IF compare(last, x) <= 0 THEN Append(sorted, x)
         ELSE Append(insert(SubSeq(sorted, 1, Len(sorted) - 1), x), last)
RECURSIVE sort(_)
sort(array) ==
    IF array = <<>> THEN <<>>
    ELSE insert(sort(SubSeq(array, 1, Len(array) - 1)), array[Len(array)])

\* the inputs of the scorer
Places == {<<4365, -7938>>, <<4372, -7950>>, <<4400, -7900>>}
WaitTimes == {0, 5, 30}
UserLocations == {[latitude |-> 4370, longitude |-> -7942],
                  [latitude |-> 4372, longitude |-> -7950]}
\* hospital lists of length n; the hospital at position i has id i
HospitalLists(n) ==
    [1..n -> {[place |-> p, wait |-> w] : p \in Places, w \in WaitTimes}]
Hospital(i, h) ==
    [id |-> i, latitude |-> h.place[1], longitude |-> h.place[2],
     current_wait_time |-> h.wait]

ScorerIdle ==
    /\ hospitalList = <<>>
    /\ userLoc = null
    /\ hospitalsWithScores = <<>>
    /\ scorerPc = "unused"
    /\ recommended = null

\* findRecommendedHospital(hospitalList, userLoc) is called; an absent
\* userLoc is null, a present one <<location>>
ScorerInit ==
    /\ \E n \in 0..MaxHospitals : \E hs \in HospitalLists(n) :
          hospitalList = [i \in 1..n |-> Hospital(i, hs[i])]
    /\ userLoc \in {null} \cup {<<l>> : l \in UserLocations}
    /\ hospitalsWithScores = <<>>
    /\ scorerPc = "check"
    /\ recommended = null

\* !userLoc || hospitalList.length === 0
missingInput_LocationOnly(loc, list) == loc = null
missingInput(loc, list) == loc = null \/ Len(list) = 0

\* if (!userLoc || hospitalList.length === 0) return null
checkArguments ==
    /\ scorerPc = "check"
    /\ IF missingInput(userLoc, hospitalList)
       THEN scorerPc' = "returned"
       ELSE scorerPc' = "map"
    /\ UNCHANGED <<hospitalList, userLoc, hospitalsWithScores, recommended, clientVars, travelVars, screenVars, restVars>>

\* hospitalsWithScores = hospitalList.map(...)
mapScores ==
    /\ scorerPc = "map"
    /\ hospitalsWithScores' =
          [i \in 1..Len(hospitalList) |-> withScore(hospitalList[i], userLoc[1])]
    /\ hospitalList' =
          [i \in 1..Len(hospitalList) |->
              afterSpread(hospitalList[i], withScore(hospitalList[i], userLoc[1]))]
    /\ scorerPc' = "sort"
    /\ UNCHANGED <<userLoc, recommended, clientVars, travelVars, screenVars, restVars>>

\* hospitalsWithScores.sort((a, b) => a.score - b.score)
sortScores ==
    /\ scorerPc = "sort"
    /\ hospitalsWithScores' = sort(hospitalsWithScores)
    /\ scorerPc' = "return"
    /\ UNCHANGED <<hospitalList, userLoc, recommended, clientVars, travelVars, screenVars, restVars>>

\* return hospitalsWithScores[0] (undefined, modelled as null, if it is empty)
returnFirst ==
    /\ scorerPc = "return"
    /\ recommended' = IF hospitalsWithScores = <<>> THEN null
                      ELSE <<hospitalsWithScores[1]>>
    /\ scorerPc' = "returned"
    /\ UNCHANGED <<hospitalList, userLoc, hospitalsWithScores, clientVars, travelVars, screenVars, restVars>>

\* findRecommendedHospital(hospitalList, userLoc) as a whole
findRecommendedHospital(list, loc) ==
    IF missingInput(loc, list) THEN null
    ELSE <<sort([i \in 1..Len(list) |-> withScore(list[i], loc[1])])[1]>>

\* calculateTravelTime run on its own
TravelIdle ==
    /\ distanceKm = 0
    /\ travelTime = null

TravelInit ==
    /\ distanceKm \in 0..MaxDistance
    /\ travelTime = null

\* const travel_time = calculateTravelTime(distance)
callCalculateTravelTime ==
    /\ travelTime = null
    /\ travelTime' = <<calculateTravelTime(distanceKm)>>
    /\ UNCHANGED <<distanceKm, clientVars, scorerVars, screenVars, restVars>>

\* calculateDistance run on its own, on pairs of points <<lat, lon>> in
\* hundredths of a degree
Coordinates ==
    {<<lat, lon>> : lat \in {4365, 4370, 4372, 4400},
                    lon \in {-7950, -7942, -7938, -7900}}

DistanceIdle ==
    /\ coordA = <<4370, -7942>>
    /\ coordB = <<4370, -7942>>
    /\ distanceResult = null

DistanceInit ==
    /\ coordA \in Coordinates
    /\ coordB \in Coordinates
    /\ distanceResult = null

\* const distance = calculateDistance(userLoc.latitude, userLoc.longitude,
\*                                    hospital.latitude, hospital.longitude)
callCalculateDistance ==
    /\ distanceResult = null
    /\ distanceResult' = <<calculateDistance(coordA[1], coordA[2], coordB[1], coordB[2])>>
    /\ UNCHANGED <<coordA, coordB, clientVars, scorerVars, travelVars, screenVars, voiceVars, hospitalVars, loginVars>>

\* the hospital-map screen. Caller 0 is initializeData, caller k the k-th
\* press of "Try Again"; each caller starts one getUserLocation() and one
\* fetchHospitals()
Callers == 0..MaxRetries

\* what GET /hospitals/ may answer with
ServerLists ==
    {<<>>,
     <<Hospital(1, [place |-> <<4365, -7938>>, wait |-> 30]),
       Hospital(2, [place |-> <<4372, -7950>>, wait |-> 5])>>,
     <<Hospital(1, [place |-> <<4365, -7938>>, wait |-> 5]),
       Hospital(2, [place |-> <<4400, -7900>>, wait |-> 30])>>}

ScreenState(pcInit) ==
    /\ hospitals = <<>>
    /\ userLocation = null
    /\ recommendedHospital = null
    /\ loading = TRUE
    /\ error = null
    /\ locationPermission = FALSE
    /\ initPc = pcInit
    /\ initUserLoc = null
    /\ initHospitalData = <<>>
    /\ locationPc = [c \in Callers |-> "idle"]
    /\ fetchPc = [c \in Callers |-> "idle"]
    /\ retries = 0

ScreenIdle == ScreenState("unmounted")
ScreenInit == ScreenState("mount")

\* initializeData up to its await of Promise.all([getUserLocation(), fetchHospitals()])
initializeData ==
    /\ initPc = "mount"
    /\ loading' = TRUE
    /\ error' = null
    /\ locationPc' = [locationPc EXCEPT ![0] = "permission"]
    /\ fetchPc' = [fetchPc EXCEPT ![0] = "get"]
    /\ initPc' = "awaitAll"
    /\ UNCHANGED <<hospitals, userLocation, recommendedHospital, locationPermission,
                   initUserLoc, initHospitalData, retries,
                   clientVars, scorerVars, travelVars, restVars>>

\* getUserLocation: await Location.requestForegroundPermissionsAsync() settles
requestPermission(c, status) ==
    /\ locationPc[c] = "permission"
    /\ IF status = "granted"
       THEN /\ locationPermission' = TRUE
            /\ locationPc' = [locationPc EXCEPT ![c] = "position"]
            /\ UNCHANGED <<error, initUserLoc>>
       ELSE /\ locationPermission' = IF status = "denied" THEN FALSE
                                     ELSE locationPermission
            /\ error' = IF status = "denied"
                        THEN <<"Location permission denied">>
                        ELSE <<"Unable to get your location">>
            /\ locationPc' = [locationPc EXCEPT ![c] = "done"]
            /\ initUserLoc' = IF c = 0 THEN null ELSE initUserLoc
    /\ UNCHANGED <<hospitals, userLocation, recommendedHospital, loading, initPc,
                   initHospitalData, fetchPc, retries,
                   clientVars, scorerVars, travelVars, restVars>>

\* getUserLocation: await Location.getCurrentPositionAsync() settles, with a
\* position <<location>> or by throwing (null)
getCurrentPosition(c, position) ==
    /\ locationPc[c] = "position"
    /\ IF position # null
       THEN /\ userLocation' = position
            /\ initUserLoc' = IF c = 0 THEN position ELSE initUserLoc
            /\ UNCHANGED error
       ELSE /\ error' = <<"Unable to get your location">>
            /\ initUserLoc' = IF c = 0 THEN null ELSE initUserLoc
            /\ UNCHANGED userLocation
    /\ locationPc' = [locationPc EXCEPT ![c] = "done"]
    /\ UNCHANGED <<hospitals, recommendedHospital, loading, locationPermission,
                   initPc, initHospitalData, fetchPc, retries,
                   clientVars, scorerVars, travelVars, restVars>>

\* fetchHospitals: await apiClient.get("/hospitals/") settles, with the list
\* <<data>> or by rejecting (null)
fetchHospitals(c, response) ==
    /\ fetchPc[c] = "get"
    /\ IF response # null
       THEN /\ hospitals' = response[1]
            /\ initHospitalData' = IF c = 0 THEN response[1] ELSE initHospitalData
            /\ UNCHANGED error
       ELSE /\ error' = <<"Unable to load hospital information">>
            /\ initHospitalData' = IF c = 0 THEN <<>> ELSE initHospitalData
            /\ UNCHANGED hospitals
    /\ fetchPc' = [fetchPc EXCEPT ![c] = "done"]
    /\ UNCHANGED <<userLocation, recommendedHospital, loading, locationPermission,
                   initPc, initUserLoc, locationPc, retries,
                   clientVars, scorerVars, travelVars, restVars>>

\* initializeData after Promise.all: the recommendation, then finally
awaitAll ==
    /\ initPc = "awaitAll"
    /\ locationPc[0] = "done"
    /\ fetchPc[0] = "done"
    /\ recommendedHospital' =
          IF initUserLoc # null /\ Len(initHospitalData) > 0
          THEN findRecommendedHospital(initHospitalData, initUserLoc)
          ELSE recommendedHospital
    /\ loading' = FALSE
    /\ initPc' = "done"
    /\ UNCHANGED <<hospitals, userLocation, error, locationPermission, initUserLoc,
                   initHospitalData, locationPc, fetchPc, retries,
                   clientVars, scorerVars, travelVars, restVars>>

\* the error screen with its "Try Again" button is rendered: not loading,
\* error set
tryAgainShown_Always == ~loading
tryAgainShown == ~loading /\ error # null

\* "Try Again" pressed
retryLoading ==
    /\ tryAgainShown
    /\ retries < MaxRetries
    /\ error' = null
    /\ retries' = retries + 1
    /\ locationPc' = [locationPc EXCEPT ![retries + 1] = "permission"]
    /\ fetchPc' = [fetchPc EXCEPT ![retries + 1] = "get"]
    /\ UNCHANGED <<hospitals, userLocation, recommendedHospital, loading,
                   locationPermission, initPc, initUserLoc, initHospitalData,
                   clientVars, scorerVars, travelVars, restVars>>

Next ==
    \/ \E r \in Requests : Call(r)
    \/ \E r \in Requests : requestInterceptor(r)
    \/ \E r \in Requests : dispatchRequest(r)
    \/ \E r \in Requests, o \in Outcomes : responseInterceptor(r, o)
    \/ \E r \in Requests : getRefreshToken(r)
    \/ \E r \in Requests, o \in Outcomes : refreshResponse(r, o)
    \/ \E r \in Requests, ok \in BOOLEAN : setAccessToken(r, ok)
    \/ \E r \in Requests, ok \in BOOLEAN : setRefreshToken(r, ok)

\* the request client with its concurrent requests
(***************************************************************************)
(* The voice assistant (VoiceAssistant component): startRecording with its *)
(* 10-second timer, stopRecording, processAudioFile, sendAudioToBackend.   *)
(***************************************************************************)
Recordings == 1..MaxRecordings

VoiceInit ==
    /\ isListening = FALSE
    /\ isProcessing = FALSE
    /\ recording = null
    /\ recordings = 0
    /\ startPc = [k \in Recordings |-> "idle"]
    /\ closureIsListening = [k \in Recordings |-> FALSE]
    /\ closureRecording = [k \in Recordings |-> null]
    /\ timer = [k \in Recordings |-> "unset"]
    /\ stopPc = "idle"

\* the microphone button (disabled while processing) pressed while not
\* listening: toggleRecording calls startRecording, which runs up to its awaits
\* (permission, audio mode, Audio.Recording.createAsync)
startRecording ==
    /\ ~isProcessing
    /\ ~isListening
    /\ recordings < MaxRecordings
    /\ recordings' = recordings + 1
    /\ startPc' = [startPc EXCEPT ![recordings + 1] = "createAsync"]
    /\ closureIsListening' = [closureIsListening EXCEPT ![recordings + 1] = isListening]
    /\ closureRecording' = [closureRecording EXCEPT ![recordings + 1] = recording]
    /\ UNCHANGED <<isListening, isProcessing, recording, timer, stopPc,
                   clientVars, scorerVars, travelVars, screenVars, distanceVars, hospitalVars, loginVars>>

\* the awaits of startRecording settle: with a recording (setRecording,
\* setIsListening(true), setTimeout(..., 10000)), or by a refused permission
\* or an exception (an alert, no state change)
createAsync(k, ok) ==
    /\ startPc[k] = "createAsync"
    /\ startPc' = [startPc EXCEPT ![k] = "done"]
    /\ IF ok
       THEN /\ recording' = <<k>>
            /\ isListening' = TRUE
            /\ timer' = [timer EXCEPT ![k] = "armed"]
       ELSE UNCHANGED <<recording, isListening, timer>>
    /\ UNCHANGED <<isProcessing, recordings, closureIsListening, closureRecording, stopPc,
                   clientVars, scorerVars, travelVars, screenVars, distanceVars, hospitalVars, loginVars>>

\* stopRecording up to its first await, run with the value rec of recording
\* that its closure holds: if (!recording) return; setIsListening(false);
\* setIsProcessing(true)
beginStop(rec) ==
    IF rec = null
    THEN UNCHANGED <<isListening, isProcessing, stopPc>>
    ELSE /\ isListening' = FALSE
         /\ isProcessing' = TRUE
         /\ stopPc' = "stopAndUnloadAsync"

\* the timer callback of the k-th startRecording: if (isListening) stopRecording(),
\* both taken from the closure of that call
timerCallback(k) == IF closureIsListening[k] THEN beginStop(closureRecording[k]) ELSE beginStop(null)

timeout(k) ==
    /\ timer[k] = "armed"
    /\ timer' = [timer EXCEPT ![k] = "fired"]
    /\ timerCallback(k)
    /\ UNCHANGED <<recording, recordings, startPc, closureIsListening, closureRecording,
                   clientVars, scorerVars, travelVars, screenVars, distanceVars, hospitalVars, loginVars>>

\* the microphone button pressed while listening: toggleRecording calls the
\* stopRecording of the current render
pressStop ==
    /\ ~isProcessing
    /\ isListening
    /\ beginStop(recording)
    /\ UNCHANGED <<recording, recordings, startPc, closureIsListening, closureRecording, timer,
                   clientVars, scorerVars, travelVars, screenVars, distanceVars, hospitalVars, loginVars>>

\* stopRecording: await recording.stopAndUnloadAsync() settles: it throws (the
\* catch block), or getURI() gives no URI, or a URI
stopAndUnloadAsync(outcome) ==
    /\ stopPc = "stopAndUnloadAsync"
    /\ IF outcome = "throws"
       THEN /\ isProcessing' = FALSE
            /\ stopPc' = "idle"
            /\ UNCHANGED recording
       ELSE /\ recording' = null
            /\ stopPc' = IF outcome = "uri" THEN "fetch" ELSE "idle"
            /\ UNCHANGED isProcessing
    /\ UNCHANGED <<isListening, recordings, startPc, closureIsListening, closureRecording, timer,
                   clientVars, scorerVars, travelVars, screenVars, distanceVars, hospitalVars, loginVars>>

\* processAudioFile: fetch(audioUri) and response.blob() settle; a failure
\* goes to the catch block, otherwise reader.readAsDataURL(blob) is started
fetchAudio(ok) ==
    /\ stopPc = "fetch"
    /\ IF ok
       THEN /\ stopPc' = "readAsDataURL"
            /\ UNCHANGED isProcessing
       ELSE /\ isProcessing' = FALSE
            /\ stopPc' = "idle"
    /\ UNCHANGED <<isListening, recording, recordings, startPc, closureIsListening,
                   closureRecording, timer,
                   clientVars, scorerVars, travelVars, screenVars, distanceVars, hospitalVars, loginVars>>

\* the FileReader finishes: onload with audio data (sendAudioToBackend is
\* called), onload with no data, or an error (no onerror handler is set)
readAsDataURL(outcome) ==
    /\ stopPc = "readAsDataURL"
    /\ stopPc' = IF outcome = "data" THEN "post" ELSE "idle"
    /\ UNCHANGED <<isListening, isProcessing, recording, recordings, startPc,
                   closureIsListening, closureRecording, timer,
                   clientVars, scorerVars, travelVars, screenVars, distanceVars, hospitalVars, loginVars>>

\* sendAudioToBackend: the post succeeds or fails, the command (or the mock
\* fallback) is handled, and finally setIsProcessing(false)
sendAudioToBackend(ok) ==
    /\ stopPc = "post"
    /\ isProcessing' = FALSE
    /\ stopPc' = "idle"
    /\ UNCHANGED <<isListening, recording, recordings, startPc, closureIsListening,
                   closureRecording, timer,
                   clientVars, scorerVars, travelVars, screenVars, distanceVars, hospitalVars, loginVars>>

(***************************************************************************)
(* The hospital requests screen (HospitalRequestsScreen): acceptRequest    *)
(* and rejectRequest with their confirmation alert.                        *)
(***************************************************************************)
RequestIds == 1..MaxRequestIds

HospitalInit ==
    /\ processingRequests = {}
    /\ dialog = null
    /\ callPc = [id \in RequestIds |-> "idle"]
    /\ callAction = [id \in RequestIds |-> "none"]
    /\ completed = {}

\* setProcessingRequests((prev) => new Set(prev).add(requestId))
addProcessing(prev, requestId) == prev \cup {requestId}
\* setProcessingRequests((prev) => { newSet = new Set(prev); newSet.delete(requestId); return newSet })
removeProcessing_Clear(prev, requestId) == {}
removeProcessing(prev, requestId) == prev \ {requestId}

\* acceptRequest / rejectRequest: the button of a request (disabled while
\* the request is processing) is pressed and the modal alert is shown
showAlert(id, action) ==
    /\ dialog = null
    /\ id \notin processingRequests
    /\ dialog' = <<[id |-> id, action |-> action]>>
    /\ UNCHANGED <<processingRequests, callPc, callAction, completed,
                   clientVars, scorerVars, travelVars, screenVars, distanceVars, voiceVars, loginVars>>

\* the alert's "Cancel"
cancelAlert ==
    /\ dialog # null
    /\ dialog' = null
    /\ UNCHANGED <<processingRequests, callPc, callAction, completed,
                   clientVars, scorerVars, travelVars, screenVars, distanceVars, voiceVars, loginVars>>

\* the alert's "Accept" / "Reject": onPress up to its await of apiClient.post
confirmAlert ==
    /\ dialog # null
    /\ dialog' = null
    /\ processingRequests' = addProcessing(processingRequests, dialog[1].id)
    /\ callPc' = [callPc EXCEPT ![dialog[1].id] = "post"]
    /\ callAction' = [callAction EXCEPT ![dialog[1].id] = dialog[1].action]
    /\ UNCHANGED <<completed,
                   clientVars, scorerVars, travelVars, screenVars, distanceVars, voiceVars, loginVars>>

\* the post settles: on success the list is refreshed first (await
\* fetchRequests()), on failure the catch block shows an alert and the
\* finally block removes the id
postSettles(id, ok) ==
    /\ callPc[id] = "post"
    /\ IF ok
       THEN /\ callPc' = [callPc EXCEPT ![id] = "fetchRequests"]
            /\ UNCHANGED <<processingRequests, completed>>
       ELSE /\ callPc' = [callPc EXCEPT ![id] = "idle"]
            /\ processingRequests' = removeProcessing(processingRequests, id)
            /\ completed' = completed \cup {id}
    /\ UNCHANGED <<dialog, callAction,
                   clientVars, scorerVars, travelVars, screenVars, distanceVars, voiceVars, loginVars>>

\* await fetchRequests() returns (it catches its own errors), then finally
fetchRequestsSettles(id) ==
    /\ callPc[id] = "fetchRequests"
    /\ callPc' = [callPc EXCEPT ![id] = "idle"]
    /\ processingRequests' = removeProcessing(processingRequests, id)
    /\ completed' = completed \cup {id}
    /\ UNCHANGED <<dialog, callAction,
                   clientVars, scorerVars, travelVars, screenVars, distanceVars, voiceVars, loginVars>>

(***************************************************************************)
(* The login screen with account routing (LoginScreen.handleLogin).        *)
(***************************************************************************)
UserTypes == {"hospital", "patient", "admin"}
UserData == [user_type : UserTypes, is_verified : BOOLEAN]

LoginInit ==
    /\ loginPc = "idle"
    /\ isLoading = FALSE
    /\ userData = null
    /\ cleanup = "none"
    /\ route = null
    /\ alert = ""
    /\ attempts = 0

\* the other variables of the model, which the login screen leaves alone
loginFrame == <<requestVars, scorerVars, travelVars, screenVars, distanceVars,
                voiceVars, hospitalVars>>

\* where a verified profile leads: router.replace for a verified hospital and
\* for a patient, nothing for any other user_type
routeFor(data) ==
    IF data.user_type = "hospital" THEN <<"/(hospital)/queue">>
    ELSE IF data.user_type = "patient" THEN <<"/(tabs)">>
    ELSE null

\* the login button: with an empty field an alert and nothing else,
\* otherwise setIsLoading(true) and the post to /token/
handleLogin(filled) ==
    /\ loginPc = "idle"
    /\ route = null
    /\ attempts < MaxAttempts
    /\ attempts' = attempts + 1
    /\ IF filled
       THEN /\ isLoading' = TRUE
            /\ loginPc' = "token"
            /\ UNCHANGED alert
       ELSE /\ alert' = "Error"
            /\ UNCHANGED <<isLoading, loginPc>>
    /\ UNCHANGED <<SecureStore, userData, cleanup, route, loginFrame>>

\* the outer catch block (loginError) and finally
loginFailed ==
    /\ alert' = "Login Failed"
    /\ isLoading' = FALSE
    /\ loginPc' = "idle"

\* await apiClient.post("/token/") settles with outcome o
tokenResponse(o) ==
    /\ loginPc = "token"
    /\ IF o.answered /\ validateStatus(o.status)
       THEN /\ loginPc' = "setAccessToken"
            /\ UNCHANGED <<alert, isLoading>>
       ELSE loginFailed
    /\ UNCHANGED <<SecureStore, userData, cleanup, route, attempts, loginFrame>>

\* await SecureStore.setItemAsync("accessToken", loginResponse.data.access)
storeAccessToken(ok) ==
    /\ loginPc = "setAccessToken"
    /\ IF ok
       THEN /\ SecureStore' = [SecureStore EXCEPT !.accessToken = AccessToken(0)]
            /\ loginPc' = "setRefreshToken"
            /\ UNCHANGED <<alert, isLoading>>
       ELSE /\ loginFailed
            /\ UNCHANGED SecureStore
    /\ UNCHANGED <<userData, cleanup, route, attempts, loginFrame>>

\* await SecureStore.setItemAsync("refreshToken", loginResponse.data.refresh)
storeRefreshToken(ok) ==
    /\ loginPc = "setRefreshToken"
    /\ IF ok
       THEN /\ SecureStore' = [SecureStore EXCEPT !.refreshToken = RefreshToken(0)]
            /\ loginPc' = "profile"
            /\ UNCHANGED <<alert, isLoading>>
       ELSE /\ loginFailed
            /\ UNCHANGED SecureStore
    /\ UNCHANGED <<userData, cleanup, route, attempts, loginFrame>>

\* await apiClient.get("/user/profile/") settles: it rejects (profile = null,
\* the inner catch block) or gives the profile <<data>>
profileResponse(profile) ==
    /\ loginPc = "profile"
    /\ userData' = profile
    /\ IF profile = null
       THEN /\ cleanup' = "catch"
            /\ loginPc' = "deleteAccessToken"
            /\ UNCHANGED <<route, isLoading>>
       ELSE IF profile[1].user_type = "hospital" /\ ~profile[1].is_verified
       THEN /\ cleanup' = "unverified"
            /\ loginPc' = "deleteAccessToken"
            /\ UNCHANGED <<route, isLoading>>
       ELSE /\ route' = routeFor(profile[1])
            /\ isLoading' = FALSE
            /\ loginPc' = "idle"
            /\ UNCHANGED cleanup
    /\ UNCHANGED <<SecureStore, alert, attempts, loginFrame>>

\* await SecureStore.deleteItemAsync("accessToken"), in the is_verified
\* branch or in the inner catch block; when it throws in the branch the inner
\* catch block takes over, when it throws in the catch block the outer one
removeAccessToken(ok) ==
    /\ loginPc = "deleteAccessToken"
    /\ IF ok
       THEN /\ SecureStore' = [SecureStore EXCEPT !.accessToken = null]
            /\ loginPc' = "deleteRefreshToken"
            /\ UNCHANGED <<cleanup, alert, isLoading>>
       ELSE IF cleanup = "unverified"
       THEN /\ cleanup' = "catch"
            /\ UNCHANGED <<SecureStore, loginPc, alert, isLoading>>
       ELSE /\ loginFailed
            /\ UNCHANGED <<SecureStore, cleanup>>
    /\ UNCHANGED <<userData, route, attempts, loginFrame>>

\* await SecureStore.deleteItemAsync("refreshToken"), then the alert and the
\* end of handleLogin
removeRefreshToken(ok) ==
    /\ loginPc = "deleteRefreshToken"
    /\ IF ok
       THEN /\ SecureStore' = [SecureStore EXCEPT !.refreshToken = null]
            /\ alert' = IF cleanup = "unverified" THEN "Account Pending Verification"
                        ELSE "Login Error"
            /\ isLoading' = FALSE
            /\ loginPc' = "idle"
            /\ UNCHANGED cleanup
       ELSE IF cleanup = "unverified"
       THEN /\ cleanup' = "catch"
            /\ loginPc' = "deleteAccessToken"
            /\ UNCHANGED <<SecureStore, alert, isLoading>>
       ELSE /\ loginFailed
            /\ UNCHANGED <<SecureStore, cleanup>>
    /\ UNCHANGED <<userData, route, attempts, loginFrame>>

RestIdle == DistanceIdle /\ VoiceInit /\ HospitalInit /\ LoginInit

Init == ClientInit /\ ScorerIdle /\ TravelIdle /\ ScreenIdle /\ RestIdle
Spec == Init /\ [][Next]_vars

\* the request client under the scheduling the code guarantees: the
\* interceptors' own steps and the SecureStore calls complete, and every call
\* made through apiClient ends within its 10-second timeout, answered or not;
\* the refresh call is made with the global axios, which sets no timeout, so
\* nothing makes it end
Fairness ==
    \A r \in Requests :
        /\ WF_vars(requestInterceptor(r))
        /\ WF_vars(dispatchRequest(r))
        /\ WF_vars(\E o \in Outcomes : responseInterceptor(r, o))
        /\ WF_vars(getRefreshToken(r))
        /\ WF_vars(\E ok \in BOOLEAN : setAccessToken(r, ok))
        /\ WF_vars(\E ok \in BOOLEAN : setRefreshToken(r, ok))
SpecLive == Init /\ [][Next]_vars /\ Fairness

\* the request client sharing the store with a sign-out
SessionNext == Next \/ deleteAccessToken \/ deleteRefreshToken
SpecSession == Init /\ [][SessionNext]_vars

\* the scorer alone: findRecommendedHospital run on every input of the bounds
ScorerStart == ScorerInit /\ ClientInit /\ TravelIdle /\ ScreenIdle /\ RestIdle
ScorerNext == checkArguments \/ mapScores \/ sortScores \/ returnFirst
SpecScorer == ScorerStart /\ [][ScorerNext]_vars

\* the travel-time estimate alone, on every distance of the bound
TravelStart == TravelInit /\ ClientInit /\ ScorerIdle /\ ScreenIdle /\ RestIdle
TravelNext == callCalculateTravelTime
SpecTravel == TravelStart /\ [][TravelNext]_vars

\* the distance function alone, on every pair of points of the bound
DistanceStart ==
    /\ DistanceInit /\ VoiceInit /\ HospitalInit /\ LoginInit
    /\ ClientInit /\ ScorerIdle /\ TravelIdle /\ ScreenIdle
DistanceNext == callCalculateDistance
SpecDistance == DistanceStart /\ [][DistanceNext]_vars

\* the voice assistant from its mount; every await of the component settles
\* and every timer fires, while the user is free never to press the button
VoiceStart == ClientInit /\ ScorerIdle /\ TravelIdle /\ ScreenIdle /\ RestIdle
VoiceNext ==
    \/ startRecording
    \/ \E k \in Recordings, ok \in BOOLEAN : createAsync(k, ok)
    \/ \E k \in Recordings : timeout(k)
    \/ pressStop
    \/ \E outcome \in {"throws", "noUri", "uri"} : stopAndUnloadAsync(outcome)
    \/ \E ok \in BOOLEAN : fetchAudio(ok)
    \/ \E outcome \in {"data", "empty", "error"} : readAsDataURL(outcome)
    \/ \E ok \in BOOLEAN : sendAudioToBackend(ok)
VoiceFairness ==
    /\ \A k \in Recordings : WF_vars(\E ok \in BOOLEAN : createAsync(k, ok))
    /\ \A k \in Recordings : WF_vars(timeout(k))
    /\ WF_vars(\E outcome \in {"throws", "noUri", "uri"} : stopAndUnloadAsync(outcome))
    /\ WF_vars(\E ok \in BOOLEAN : fetchAudio(ok))
    /\ WF_vars(\E outcome \in {"data", "empty", "error"} : readAsDataURL(outcome))
    /\ WF_vars(\E ok \in BOOLEAN : sendAudioToBackend(ok))
SpecVoice == VoiceStart /\ [][VoiceNext]_vars /\ VoiceFairness

\* the hospital requests screen from its mount
HospitalStart == ClientInit /\ ScorerIdle /\ TravelIdle /\ ScreenIdle /\ RestIdle
HospitalNext ==
    \/ \E id \in RequestIds, action \in {"accept", "reject"} : showAlert(id, action)
    \/ cancelAlert
    \/ confirmAlert
    \/ \E id \in RequestIds, ok \in BOOLEAN : postSettles(id, ok)
    \/ \E id \in RequestIds : fetchRequestsSettles(id)
SpecHospital == HospitalStart /\ [][HospitalNext]_vars

\* the login screen, opened while the store holds no token
SignedOut == SecureStore = [accessToken |-> null, refreshToken |-> null]
LoginStart == ClientInit /\ SignedOut /\ ScorerIdle /\ TravelIdle /\ ScreenIdle /\ RestIdle
LoginNext ==
    \/ \E filled \in BOOLEAN : handleLogin(filled)
    \/ \E o \in Outcomes : tokenResponse(o)
    \/ \E ok \in BOOLEAN : storeAccessToken(ok)
    \/ \E ok \in BOOLEAN : storeRefreshToken(ok)
    \/ \E profile \in {null} \cup {<<data>> : data \in UserData} : profileResponse(profile)
    \/ \E ok \in BOOLEAN : removeAccessToken(ok)
    \/ \E ok \in BOOLEAN : removeRefreshToken(ok)
SpecLogin == LoginStart /\ [][LoginNext]_vars

\* the hospital-map screen from its mount
ExploreStart == ScreenInit /\ ClientInit /\ ScorerIdle /\ TravelIdle /\ RestIdle
ExploreNext ==
    \/ initializeData
    \/ \E c \in Callers, status \in {"granted", "denied", "threw"} :
          requestPermission(c, status)
    \/ \E c \in Callers, position \in {null} \cup {<<l>> : l \in UserLocations} :
          getCurrentPosition(c, position)
    \/ \E c \in Callers, response \in {null} \cup {<<data>> : data \in ServerLists} :
          fetchHospitals(c, response)
    \/ awaitAll
    \/ retryLoading
SpecExplore == ExploreStart /\ [][ExploreNext]_vars

(***************************************************************************)
(* Properties of the request client (checked under Spec).                  *)
(***************************************************************************)
Is401(o) == o.answered /\ o.status = 401
Is2xx(o) == o.answered /\ validateStatus(o.status)
\* some refresh call of r was answered successfully
Refreshed(r) == \E k \in 1..Len(refreshOutcomes[r]) : Is2xx(refreshOutcomes[r][k])
\* the failure the caller takes as Unauthenticated: the promise rejects with a
\* 401 of the endpoint, or with what the refresh attempt threw
Unauthenticated(res) ==
    /\ res.kind = "rejected"
    /\ \/ res.from \in {"refresh", "store"}
       \/ res.from = "request" /\ res.answered /\ res.status = 401

\* C1: a request whose first call is answered 401, whose refresh call
\* succeeds and whose second call is answered 2xx has called its endpoint
\* exactly twice and the refresh endpoint exactly once, and its caller
\* receives the response of the second call.
C1_RetriedOnce ==
    \A r \in Requests :
        (/\ Len(responses[r]) >= 2
         /\ Is401(responses[r][1])
         /\ Refreshed(r)
         /\ Is2xx(responses[r][2]))
        => /\ sends[r] = 2
           /\ Len(responses[r]) = 2
           /\ refreshCalls[r] = 1
           /\ pc[r] = "done"
           /\ result[r] = Resolved(2, responses[r][2].status)
C1_Witness ==
    \E r \in Requests :
        /\ pc[r] = "done"
        /\ Len(responses[r]) = 2
        /\ Is401(responses[r][1])
        /\ Refreshed(r)
        /\ Is2xx(responses[r][2])

\* C2: a request answered 401, refreshed successfully and answered 401 again
\* fails with Unauthenticated (the second 401) after one refresh call: there
\* is never a second refresh call nor a third call to the endpoint.
C2_SecondUnauthorizedFails ==
    \A r \in Requests :
        (/\ Len(responses[r]) >= 2
         /\ Is401(responses[r][1])
         /\ Refreshed(r)
         /\ Is401(responses[r][2]))
        => /\ pc[r] = "done"
           /\ Unauthenticated(result[r])
           /\ result[r] = RejectedError(2, responses[r][2])
           /\ refreshCalls[r] = 1
           /\ sends[r] = 2
C2_Witness ==
    \E r \in Requests :
        /\ pc[r] = "done"
        /\ Len(responses[r]) = 2
        /\ Is401(responses[r][1])
        /\ Refreshed(r)
        /\ Is401(responses[r][2])

\* C3: a request answered 401 that finds no refresh token stored fails at
\* once with Unauthenticated (the 401): it makes no refresh call, is not
\* sent again and writes nothing to the store.
C3_NoRefreshTokenFails ==
    \A r \in Requests :
        refreshToken[r] = <<null>>
        => /\ pc[r] = "done"
           /\ Unauthenticated(result[r])
           /\ result[r] = RejectedError(1, responses[r][1])
           /\ refreshCalls[r] = 0
           /\ sends[r] = 1
           /\ writes[r] = 0
C3_Witness ==
    \E r \in Requests :
        /\ refreshToken[r] = <<null>>
        /\ Is401(responses[r][1])
        /\ pc[r] = "done"

\* C4: when the refresh call of a request fails (error status or no
\* response) the request fails with Unauthenticated (the refresh error), is
\* not sent again, and has written neither token.
C4_RefreshFailureKeepsTokens ==
    \A r \in Requests :
        (Len(refreshOutcomes[r]) >= 1 /\ ~Is2xx(refreshOutcomes[r][1]))
        => /\ pc[r] = "done"
           /\ Unauthenticated(result[r])
           /\ result[r] = RejectedRefreshError(refreshOutcomes[r][1])
           /\ refreshCalls[r] = 1
           /\ sends[r] = 1
           /\ writes[r] = 0
           /\ newTokens[r] = <<>>
C4_Witness ==
    \E r \in Requests, q \in Requests :
        /\ pc[r] = "done" /\ pc[q] = "done"
        /\ refreshOutcomes[r] = <<NoResponse>>
        /\ refreshOutcomes[q] = <<[answered |-> TRUE, status |-> 500]>>
        /\ SecureStore = [accessToken |-> AccessToken(0), refreshToken |-> RefreshToken(0)]

\* C5: a request whose call is answered with a status that is neither 2xx
\* nor 401 fails with that very response; when it is the first call, the
\* request was sent once, made no refresh call and wrote nothing to the store.
C5_OtherStatusFailsWithoutRetry ==
    \A r \in Requests : \A n \in 1..Len(responses[r]) :
        (responses[r][n].answered /\ ~Is2xx(responses[r][n]) /\ ~Is401(responses[r][n]))
        => /\ pc[r] = "done"
           /\ result[r] = RejectedError(n, responses[r][n])
           /\ ~Unauthenticated(result[r])
           /\ sends[r] = n
           /\ Len(responses[r]) = n
           /\ n = 1 => (refreshCalls[r] = 0 /\ writes[r] = 0 /\ refreshToken[r] = <<>>)
C5_Witness ==
    \E r \in Requests :
        /\ pc[r] = "done"
        /\ responses[r] = <<[answered |-> TRUE, status |-> 500]>>

\* the store holds a complete pair: no token at all, or an access token and
\* a refresh token of the same issue
CompletePair(store) ==
    \/ store.accessToken = null /\ store.refreshToken = null
    \/ /\ store.accessToken # null
       /\ store.refreshToken # null
       /\ store.accessToken[2] = store.refreshToken[2]

\* C6: the update of the store on a successful refresh is atomic: as long as
\* no sign-out has begun, the store holds in every state a complete pair,
\* the old one or the new one.
C6_AtomicPairUpdate == logoutPc = "idle" => CompletePair(SecureStore)

\* C7: under every interleaving of concurrent requests, each request calls
\* its endpoint at most twice and the refresh endpoint at most once; a failed
\* refresh call is the request's last call.
C7_AtMostOneRefreshCycle ==
    \A r \in Requests :
        /\ sends[r] <= 2
        /\ refreshCalls[r] <= 1
        /\ Len(responses[r]) <= sends[r]
        /\ Len(refreshOutcomes[r]) <= refreshCalls[r]
        /\ (Len(refreshOutcomes[r]) >= 1 /\ ~Is2xx(refreshOutcomes[r][1]))
              => (pc[r] = "done" /\ sends[r] = 1)
C7_Witness ==
    \E r \in Requests, q \in Requests :
        /\ r # q
        /\ pc[r] = "awaitResponse" /\ sends[r] = 2 /\ refreshCalls[r] = 1
        /\ pc[q] = "done" /\ refreshOutcomes[q] = <<[answered |-> TRUE, status |-> 401]>>

\* C8: when two or more requests have each refreshed successfully and saved
\* both tokens, and all requests have completed (no sign-out), the store holds
\* the access token and the refresh token of one and the same refresh response.
C8_OnePairAfterConcurrentRefreshes ==
    (/\ \A r \in Requests : pc[r] = "done"
     /\ logoutPc = "idle"
     /\ Cardinality({r \in Requests : Refreshed(r) /\ writes[r] = 2}) >= 2
     /\ \A r \in Requests : Refreshed(r) => writes[r] = 2)
    => CompletePair(SecureStore)

(***************************************************************************)
(* Properties of the scorer (checked under SpecScorer).                    *)
(***************************************************************************)
\* the score of a hospital for a user location: travel time plus wait time
ScoreFor(h, loc) ==
    calculateTravelTime(calculateDistance(loc.latitude, loc.longitude,
                                          h.latitude, h.longitude))
    + h.current_wait_time
\* the scored element e is the hospital h
SameHospital(e, h) ==
    /\ e.id = h.id
    /\ e.latitude = h.latitude
    /\ e.longitude = h.longitude
    /\ e.current_wait_time = h.current_wait_time
ScorerReturnedRanking ==
    scorerPc = "returned" /\ userLoc # null /\ Len(hospitalList) > 0

\* C9: on a non-empty list the recommended hospital is one of the supplied
\* hospitals and no supplied hospital has a strictly smaller score.
C9_RecommendedIsMinimum ==
    ScorerReturnedRanking
    => /\ recommended # null
       /\ \E i \in 1..Len(hospitalList) :
             /\ SameHospital(recommended[1], hospitalList[i])
             /\ recommended[1].score = ScoreFor(hospitalList[i], userLoc[1])
       /\ \A j \in 1..Len(hospitalList) :
             ScoreFor(hospitalList[j], userLoc[1]) >= recommended[1].score
C9_Witness ==
    /\ ScorerReturnedRanking
    /\ Len(hospitalList) = MaxHospitals
    /\ recommended[1].id = MaxHospitals
    /\ \A j \in 1..(MaxHospitals - 1) :
          ScoreFor(hospitalList[j], userLoc[1]) > recommended[1].score

\* C10: the ranking of a non-empty list has the length of the list, holds
\* every supplied hospital exactly once, is ascending by score, and gives
\* each hospital the travel time of its distance and, as score, that travel
\* time plus its wait time.
C10_RankingIsSortedPermutation ==
    ScorerReturnedRanking
    => /\ Len(hospitalsWithScores) = Len(hospitalList)
       /\ \A i \in 1..Len(hospitalList) :
             Cardinality({k \in 1..Len(hospitalsWithScores) :
                             SameHospital(hospitalsWithScores[k], hospitalList[i])}) = 1
       /\ \A k \in 1..(Len(hospitalsWithScores) - 1) :
             hospitalsWithScores[k].score <= hospitalsWithScores[k + 1].score
       /\ \A k \in 1..Len(hospitalsWithScores) :
             LET e == hospitalsWithScores[k] IN
             /\ e.travel_time =
                   calculateTravelTime(calculateDistance(userLoc[1].latitude,
                       userLoc[1].longitude, e.latitude, e.longitude))
             /\ e.score = e.travel_time + e.current_wait_time
C10_Witness ==
    /\ ScorerReturnedRanking
    /\ Len(hospitalList) = MaxHospitals
    /\ hospitalsWithScores[1].id = MaxHospitals
    /\ hospitalsWithScores[MaxHospitals].id = 1
    /\ hospitalsWithScores[1].score < hospitalsWithScores[MaxHospitals].score
    /\ hospitalsWithScores[1].current_wait_time > 0

C12_TiesKeepInputOrder ==
    ScorerReturnedRanking
    => /\ \A k \in 1..Len(hospitalsWithScores) : \A l \in 1..Len(hospitalsWithScores) :
             (k < l /\ hospitalsWithScores[k].score = hospitalsWithScores[l].score)
             => hospitalsWithScores[k].id < hospitalsWithScores[l].id
       /\ \A j \in 1..Len(hospitalList) :
             ScoreFor(hospitalList[j], userLoc[1]) = recommended[1].score
             => recommended[1].id <= j
C12_Witness ==
    /\ ScorerReturnedRanking
    /\ Len(hospitalList) = MaxHospitals
    /\ recommended[1].id = 1
    /\ ScoreFor(hospitalList[MaxHospitals], userLoc[1]) = recommended[1].score
    /\ hospitalList[MaxHospitals].latitude # recommended[1].latitude

\* C18: with non-negative whole wait times every computed score is a
\* non-negative whole number, the plain sum of travel time and wait time,
\* and at least the wait time.
C18_ScoreIsPlainSum ==
    \A k \in 1..Len(hospitalsWithScores) :
        LET e == hospitalsWithScores[k] IN
        e.current_wait_time \in Nat
        => /\ e.travel_time \in Nat
           /\ e.score \in Nat
           /\ e.score = e.travel_time + e.current_wait_time
           /\ e.score >= e.current_wait_time
C18_Witness ==
    /\ scorerPc = "returned"
    /\ Len(hospitalsWithScores) = MaxHospitals
    /\ \E k \in 1..MaxHospitals :
          hospitalsWithScores[k].current_wait_time = 0 /\ hospitalsWithScores[k].score = 0
    /\ \E k \in 1..MaxHospitals :
          /\ hospitalsWithScores[k].current_wait_time > 0
          /\ hospitalsWithScores[k].score > hospitalsWithScores[k].current_wait_time

\* C20: computing a recommendation changes nothing but the scorer's own
\* locals and result: the hospital list it was given (elements, order,
\* fields), the user location and the rest of the state stay as they were.
C20_ScorerLeavesInputsAlone ==
    [][hospitalList' = hospitalList /\ userLoc' = userLoc /\ clientVars' = clientVars]_vars
C20_Witness ==
    /\ ScorerReturnedRanking
    /\ Len(hospitalList) = MaxHospitals
    /\ hospitalsWithScores[1].id = MaxHospitals
    /\ \A i \in 1..MaxHospitals :
          /\ hospitalList[i].id = i
          /\ DOMAIN hospitalList[i] = {"id", "latitude", "longitude", "current_wait_time"}

\* C13: a call to the endpoint that gets no response within the timeout
\* fails the request with that error, for good: no further send, and when it
\* is the first call, no refresh call and no store write.
C13_TimeoutIsTerminal ==
    \A r \in Requests : \A n \in 1..Len(responses[r]) :
        ~responses[r][n].answered
        => /\ pc[r] = "done"
           /\ result[r] = RejectedError(n, NoResponse)
           /\ sends[r] = n
           /\ Len(responses[r]) = n
           /\ n = 1 => (refreshCalls[r] = 0 /\ writes[r] = 0 /\ refreshToken[r] = <<>>)
C13_Witness ==
    \E r \in Requests, q \in Requests :
        /\ pc[r] = "done" /\ responses[r] = <<NoResponse>>
        /\ pc[q] = "done" /\ Len(responses[q]) = 2 /\ responses[q][2] = NoResponse

\* C14: every request that was called eventually completes, also when the
\* remote service stops answering.
C14_EveryRequestCompletes ==
    \A r \in Requests : (pc[r] # "idle") ~> (pc[r] = "done")

\* C15 (as claimed): every send carries the access token the store holds at
\* the moment of the send when there is one, and a first send made while the
\* store holds none carries no Authorization header.
C15_SendCarriesStoredToken ==
    [][\A r \in Requests :
          sends'[r] = sends[r] + 1
          => LET header == sentAuth'[r][Len(sentAuth'[r])] IN
             /\ SecureStore.accessToken # null => header = SecureStore.accessToken
             /\ (sends[r] = 0 /\ SecureStore.accessToken = null) => header = null]_vars
\* C15 (amended): every send carries the access token its request
\* interceptor read from the store for that send when the read found one, and
\* a first send whose read found none carries no Authorization header.
C15_SendCarriesTokenRead ==
    \A r \in Requests :
        /\ Len(sentAuth[r]) <= Len(accessToken[r])
        /\ \A n \in 1..Len(sentAuth[r]) :
              /\ accessToken[r][n] # null => sentAuth[r][n] = accessToken[r][n]
              /\ (n = 1 /\ accessToken[r][n] = null) => sentAuth[r][n] = null
C15_Witness ==
    \E r \in Requests, q \in Requests :
        /\ r # q
        /\ Len(sentAuth[r]) = 2
        /\ sentAuth[r][1] = AccessToken(0)
        /\ sentAuth[r][2] = AccessToken(q)
        /\ accessToken[r] = sentAuth[r]

\* C17: the stored tokens are changed by the request client alone: every
\* step that changes the store is a write of a request's interceptor.
C17_OnlyClientTouchesStore ==
    [][SecureStore' # SecureStore
       => \E r \in Requests : writes'[r] = writes[r] + 1]_vars

\* no load and no retry is in flight on the hospital-map screen
Quiescent ==
    /\ initPc = "done"
    /\ \A c \in Callers : locationPc[c] \in {"idle", "done"}
                       /\ fetchPc[c] \in {"idle", "done"}

\* C16: whenever a user location and a non-empty hospital list are both
\* loaded, nothing is in flight and the map is shown (no error screen), also
\* after a retry of loading, the recommendation shown is the scorer's result
\* on the current location and list.
C16_RecommendationFollowsInputs ==
    (Quiescent /\ error = null /\ userLocation # null /\ Len(hospitals) > 0)
    => recommendedHospital = findRecommendedHospital(hospitals, userLocation)

\* C19: the travel time is the distance at 40 km/h in minutes, rounded to
\* the nearest minute, and no shorter distance has a longer travel time.
C19_TravelTimeMonotonic ==
    travelTime # null
    => /\ \A d1 \in 0..distanceKm : calculateTravelTime(d1) <= travelTime[1]
       /\ 2 * Abs(travelTime[1] * averageSpeedKmh * 1000 - distanceKm * 60)
             <= averageSpeedKmh * 1000
C19_Witness ==
    /\ travelTime # null
    /\ distanceKm = MaxDistance
    /\ travelTime[1] > calculateTravelTime(distanceKm \div 2)
    /\ calculateTravelTime(distanceKm \div 2) > 0

\* C21: the distance from a to b equals the distance from b to a, and the
\* distance from a point to itself is 0.
C21_DistanceSymmetric ==
    distanceResult # null
    => /\ distanceResult[1] = calculateDistance(coordB[1], coordB[2], coordA[1], coordA[2])
       /\ coordA = coordB => distanceResult[1] = 0
C21_Witness ==
    /\ distanceResult # null
    /\ coordA[1] # coordB[1]
    /\ coordA[2] # coordB[2]
    /\ distanceResult[1] > 0

\* C22: in the example scenario (user at (43.70, -79.42), H1 at
\* (43.65, -79.38) waiting 30 min, H2 at (43.72, -79.50) waiting 5 min) H2's
\* score is smaller than H1's and the scorer returns H2.
ExampleScenario ==
    /\ userLoc = <<[latitude |-> 4370, longitude |-> -7942]>>
    /\ Len(hospitalList) = 2
    /\ hospitalList[1] = Hospital(1, [place |-> <<4365, -7938>>, wait |-> 30])
    /\ hospitalList[2] = Hospital(2, [place |-> <<4372, -7950>>, wait |-> 5])
C22_ExampleReturnsH2 ==
    (ExampleScenario /\ scorerPc = "returned")
    => /\ recommended # null
       /\ SameHospital(recommended[1], hospitalList[2])
       /\ recommended[1].score = ScoreFor(hospitalList[2], userLoc[1])
       /\ ScoreFor(hospitalList[2], userLoc[1]) < ScoreFor(hospitalList[1], userLoc[1])
C22_Witness ==
    /\ ExampleScenario
    /\ scorerPc = "returned"
    /\ hospitalsWithScores[1].id = 2
    /\ hospitalsWithScores[2].id = 1

\* C23: a request is resent only after both writes of its refresh cycle, of
\* the new access token and of the new refresh token, have completed.
C23_ResendAfterBothWrites ==
    [][\A r \in Requests :
          (sends[r] >= 1 /\ sends'[r] = sends[r] + 1)
          => /\ writes[r] = 2
             /\ Refreshed(r)
             /\ pc[r] = "dispatchRequest"]_vars
C23_Witness ==
    \E r \in Requests :
        /\ sends[r] = 2
        /\ writes[r] = 2
        /\ SecureStore.accessToken = AccessToken(r)
        /\ SecureStore.refreshToken = RefreshToken(r)

\* C24: the resend of a request after its refresh carries the access token
\* that this request's own refresh call returned.
C24_ResendCarriesOwnToken ==
    \A r \in Requests :
        Len(sentAuth[r]) >= 2 => sentAuth[r][2] = AccessToken(newTokens[r][1])

\* C26: once sign-out has deleted both tokens the store holds no token.
C26_StoreStaysEmptyAfterSignOut ==
    logoutPc = "done"
    => SecureStore.accessToken = null /\ SecureStore.refreshToken = null

\* C25: once the 10-second timer of a recording has fired and that
\* recording is still the current one, the assistant is no longer listening.
C25_TimerStopsRecording ==
    \A k \in Recordings :
        (timer[k] = "fired" /\ recording = <<k>>) => ~isListening

\* C28: whenever processing has begun it eventually ends.
C28_ProcessingEnds == isProcessing ~> ~isProcessing

\* C29: a request id is in the processing set exactly while a confirmed
\* accept or reject call for it is in flight; with no call in flight the set
\* is empty.
C29_ProcessingSetTracksCalls ==
    /\ processingRequests = {id \in RequestIds : callPc[id] # "idle"}
    /\ (\A id \in RequestIds : callPc[id] = "idle") => processingRequests = {}
C29_Witness ==
    \E i \in RequestIds, j \in RequestIds :
        /\ i # j
        /\ i \in completed /\ callPc[i] = "idle" /\ i \notin processingRequests
        /\ callAction[i] = "accept" /\ callAction[j] = "reject"
        /\ callPc[j] = "fetchRequests" /\ j \in processingRequests

\* C27: whenever a login attempt has finished without navigating into an
\* app area, the store holds neither an access token nor a refresh token.
C27_NoTokensWithoutNavigation ==
    (attempts > 0 /\ loginPc = "idle" /\ route = null)
    => SecureStore.accessToken = null /\ SecureStore.refreshToken = null

\* C30: on the explore screen a recommended hospital is set only if a user
\* location and a non-empty hospital list were both obtained, and it is then
\* a hospital of the loaded list whose score is minimal for that location.
C30_RecommendationIsLoadedMinimum ==
    recommendedHospital # null
    => /\ userLocation # null
       /\ initUserLoc = userLocation
       /\ Len(hospitals) > 0
       /\ \E i \in 1..Len(hospitals) :
             /\ SameHospital(recommendedHospital[1], hospitals[i])
             /\ recommendedHospital[1].score = ScoreFor(hospitals[i], userLocation[1])
       /\ \A j \in 1..Len(hospitals) :
             recommendedHospital[1].score <= ScoreFor(hospitals[j], userLocation[1])
C30_Witness ==
    /\ initPc = "done"
    /\ recommendedHospital # null
    /\ recommendedHospital[1].id = 2
    /\ recommendedHospital[1].score < ScoreFor(hospitals[1], userLocation[1])

====
